---- MODULE Spec2Model ----
(***************************************************************************)
(* Model of intake/catalog/entry.py: class CatalogEntry.                   *)
(*                                                                         *)
(* One entry, the persistence store's view of its default-parameter        *)
(* source, and a clock.  Every operation of the entry is one action; the   *)
(* record `last` holds what the latest operation was given, which          *)
(* collaborator calls it made (in order) and what it returned or raised.   *)
(*                                                                         *)
(* Python strings are modelled as objects, not only as values: __call__    *)
(* compares the mode with `is 'never'` and `is 'always'`, i.e. by object   *)
(* identity.  A string is the record [val, lit]; lit = TRUE means the      *)
(* object IS the interned literal of that value (a literal written in      *)
(* source), lit = FALSE means an equal string built at run time            *)
(* (e.g. ''.join(['nev', 'er']) or a value parsed from a YAML file).       *)
(***************************************************************************)
EXTENDS Integers, Sequences, FiniteSets

VARIABLES pmode, default_source, container, persisted, ttl, timestamp,
          now, inter, builds, last

vars == <<pmode, default_source, container, persisted, ttl, timestamp,
          now, inter, builds, last>>

---------------------------------------------------------------------------
(* Bounds *)

MaxTime == 2
MaxTtl == 1
MaxBuilds == 2

---------------------------------------------------------------------------
(* Values *)

\* Python None where a string is expected (persist=None).
NoneV == [isNone |-> TRUE, val |-> "", lit |-> FALSE]

\* A Python str object with value v; l: it is the interned literal.
Str(v, l) == [isNone |-> FALSE, val |-> v, lit |-> l]

\* ['always', 'never', 'default'] of __call__.
ValidModes == {"always", "never", "default"}

\* Strings that are not a mode ('' is the falsy one).
OtherStrings == {"bogus", ""}

ModeObjects == {Str(v, l) : v \in ValidModes, l \in BOOLEAN}

\* What a caller can pass as persist=.
Overrides == {NoneV} \cup ModeObjects \cup {Str(v, FALSE) : v \in OtherStrings}

\* What the owning catalog can assign to entry._pmode (it is not validated).
PmodeValues == ModeObjects \cup {Str("bogus", FALSE)}

\* metadata['ttl']: <<>> is None, <<n>> is the number n.
NoTtl == <<>>
TtlValues == {NoTtl} \cup {<<n>> : n \in -1..MaxTtl}

\* Item keys: a plain key, or a tuple of plain keys.  SourceKeys are the
\* keys of a data source, InnerKeys those of the objects stored in it.
SourceKeys == {"a", "b"}
InnerKeys == {"c"}
Atom(k) == [tuple |-> FALSE, elems |-> <<k>>]
Tup(s) == [tuple |-> TRUE, elems |-> s]
TupleItems == {Tup(<<>>)} \cup {Tup(<<k>>) : k \in SourceKeys}
                \cup {Tup(<<k0, k1>>) : k0 \in SourceKeys, k1 \in InnerKeys}
Items == {Atom(k) : k \in SourceKeys} \cup TupleItems
\* Keys an intermediate object (default_source[k0]) can be asked for.
InterKeys == {Atom(k) : k \in InnerKeys} \cup {Tup(<<k>>) : k \in InnerKeys}
InterVals == {"x", "y"}
\* The contents of an intermediate object.  The values are opaque, so the
\* tables are taken up to renaming of the values: the plain key holds "x".
InterTables == {t \in [InterKeys -> InterVals] : t[Atom("c")] = "x"}

\* Container kinds, and the mark of an object that has no _container.
Containers == {"catalog", "dataframe"}
Unset == "unset"
\* container.entry: _container in the entry's own __dict__ (__init__ does
\* not set it, a concrete entry may); container.source: _container of the
\* default source, which is read only when the entry has none, so it is
\* enumerated for that case alone.
ContainerStates ==
    {[entry |-> c, source |-> c] : c \in Containers}
      \cup {[entry |-> Unset, source |-> c] : c \in Containers \cup {Unset}}

\* Names the entry instance / class defines itself, and names of a source.
EntryAttrs == {"_pmode", "getenv"}
SourceAttrs == {"read"}
Attrs == EntryAttrs \cup SourceAttrs \cup {"nosuch"}
EntryDirNames == {"describe", "describe_open", "get", "has_been_persisted", "plots"}

NoItem == Tup(<<>>)
\* The result of an item access, attribute access or iteration: which
\* object it was taken from (src), under which first key or name (of),
\* and what came out (val).
NoValue == [src |-> "none", of |-> "", val |-> ""]
Idle == [op |-> "idle", persist |-> NoneV, item |-> NoItem, attr |-> "",
         eff |-> NoneV, hadReplica |-> FALSE, ttlAt |-> NoTtl, elapsed |-> 0,
         err |-> "", ret |-> "none", calls |-> <<>>, value |-> NoValue,
         names |-> {}]

---------------------------------------------------------------------------
(* CatalogEntry.__call__ *)

\* Python truthiness of a str-or-None.
StrTruthy(s) == ~s.isNone /\ s.val # ""

\* `s is '<v>'`: identity with the literal of value v.
IsLiteral(s, v) == ~s.isNone /\ s.val = v /\ s.lit

\* (variant: `if persist and persist not in [...]`, '' slips through)
InvalidOverride_Truthy(persist) == StrTruthy(persist) /\ persist.val \notin ValidModes

\* persist is not None and persist not in ['always', 'never', 'default']
InvalidOverride(persist) == ~persist.isNone /\ persist.val \notin ValidModes

\* persist or self._pmode
EffectiveMode(persist, pm) == IF StrTruthy(persist) THEN persist ELSE pm

\* not met['ttl']
TtlFalsy(t) == t = NoTtl \/ t[1] = 0

\* (variant: `<=`, a replica of age exactly ttl is returned as it is)
PastTtl_Inclusive(t, elapsed) == t[1] <= elapsed

\* met['ttl'] < time.time() - met['timestamp']
PastTtl(t, elapsed) == t[1] < elapsed

\* The body of __call__ as a function of what it reads: the override, the
\* entry's _pmode, whether the store holds a replica of the live source, the
\* replica's ttl and the time since its timestamp.
\*   ret:   which object is returned ("live" = s, "persisted" = s2,
\*          "refreshed" = store.refresh(s2), "none" = nothing, it raised)
\*   calls: the collaborator calls made, in order
Open(persist, pm, has, t, elapsed) ==
    IF InvalidOverride(persist)
    THEN [err |-> "ValueError", ret |-> "none", calls |-> <<>>, eff |-> NoneV]
    ELSE LET eff == EffectiveMode(persist, pm) IN
         IF has /\ ~IsLiteral(eff, "never")
         THEN IF IsLiteral(eff, "always") \/ TtlFalsy(t)
              THEN [err |-> "", ret |-> "persisted", eff |-> eff,
                    calls |-> <<"get", "has_been_persisted", "get_persisted">>]
              ELSE IF PastTtl(t, elapsed)
              THEN [err |-> "", ret |-> "persisted", eff |-> eff,
                    calls |-> <<"get", "has_been_persisted", "get_persisted">>]
              ELSE [err |-> "", ret |-> "refreshed", eff |-> eff,
                    calls |-> <<"get", "has_been_persisted", "get_persisted",
                                "refresh">>]
         ELSE [err |-> "", ret |-> "live", eff |-> eff,
               calls |-> <<"get", "has_been_persisted">>]

\* __call__ on the current state.
OpenNow(persist) == Open(persist, pmode, persisted, ttl, now - timestamp)

\* store.refresh(s2): the replica is written again, stamped with the
\* current time.
Refreshed(o) == IF o.ret = "refreshed" THEN now ELSE timestamp

\* What every operation records about the open it performed.
Opened(o) == [eff |-> o.eff, hadReplica |-> persisted, ttlAt |-> ttl,
              elapsed |-> now - timestamp, err |-> o.err, ret |-> o.ret,
              calls |-> o.calls]

Record(base, o) == [f \in DOMAIN Idle |->
                      IF f \in DOMAIN base THEN base[f]
                      ELSE IF f \in DOMAIN o THEN o[f] ELSE Idle[f]]

\* (variant: the override is stored, `self._pmode = persist or self._pmode`)
Call_StoresOverride(persist) ==
    LET o == OpenNow(persist) IN
    /\ last' = Record([op |-> "call", persist |-> persist], Opened(o))
    /\ timestamp' = Refreshed(o)
    /\ pmode' = IF o.err = "" THEN o.eff ELSE pmode
    /\ UNCHANGED <<default_source, container, persisted, ttl, now,
                   inter, builds>>

\* entry(persist=...)
Call(persist) ==
    LET o == OpenNow(persist) IN
    /\ last' = Record([op |-> "call", persist |-> persist], Opened(o))
    /\ timestamp' = Refreshed(o)
    /\ UNCHANGED <<pmode, default_source, container, persisted, ttl, now,
                   inter, builds>>

---------------------------------------------------------------------------
(* Lazy default-source proxying *)

\* self._get_default_source(): return self()
DefaultSource == OpenNow(NoneV)

\* source[k] of a data source: the intermediate object stored under k.
SourceGetItem(src, k) == [src |-> src, of |-> k, val |-> "obj"]

\* obj[key] of an intermediate object: a plain mapping lookup, the key is
\* looked up as it is given (a 1-tuple is a key of its own).
InterGetItem(obj, key) == [src |-> obj.src, of |-> obj.of, val |-> inter[key]]

\* (variant: item[1], the bare second key)
Rest_Second(item) == Atom(item.elems[2])

\* item[1:] handed to the intermediate object by __getitem__.
Rest(item) == Tup(Tail(item.elems))

\* The body of __getitem__ once the default source src is at hand.
GetItemValue(src, item) ==
    IF item.tuple /\ Len(item.elems) > 1
    THEN InterGetItem(SourceGetItem(src, item.elems[1]), Rest(item))
    ELSE SourceGetItem(src, item.elems[1])

\* A step that went through _get_default_source.
Forwarded(base, o) ==
    /\ builds < MaxBuilds
    /\ last' = Record(base, Opened(o))
    /\ timestamp' = Refreshed(o)
    /\ builds' = builds + 1
    /\ UNCHANGED <<pmode, default_source, container, persisted, ttl, now, inter>>

\* A step that did not reach any collaborator.
Local(base) ==
    /\ last' = Record(base, [eff |-> NoneV])
    /\ UNCHANGED <<pmode, default_source, container, persisted, ttl,
                   timestamp, now, inter, builds>>

\* entry.<attr>
GetAttr(attr) ==
    IF attr \in EntryAttrs
    THEN Local([op |-> "getattr", attr |-> attr,
                value |-> [src |-> "entry", of |-> attr, val |-> "attr"]])
    ELSE LET o == DefaultSource IN
         IF attr \in SourceAttrs
         THEN Forwarded([op |-> "getattr", attr |-> attr,
                         value |-> [src |-> o.ret, of |-> attr, val |-> "attr"]], o)
         ELSE Forwarded([op |-> "getattr", attr |-> attr,
                         err |-> "AttributeError"], o)

\* dir(entry); the sorted list is represented by the set of its elements.
Dir ==
    LET o == DefaultSource IN
    Forwarded([op |-> "dir", names |-> EntryDirNames \cup SourceAttrs], o)

\* A step that went through _get_default_source twice: o1 is the first
\* open, o2 the second (made after o1's refresh, if any, has restamped
\* the replica).
ForwardedTwice(base, o1, o2) ==
    /\ builds + 2 <= MaxBuilds
    /\ last' = Record(base, [eff |-> o2.eff, hadReplica |-> persisted,
                             ttlAt |-> ttl, elapsed |-> now - timestamp,
                             err |-> o2.err, ret |-> o2.ret,
                             calls |-> o1.calls \o o2.calls])
    /\ timestamp' = IF o2.ret = "refreshed" THEN now ELSE Refreshed(o1)
    /\ builds' = builds + 2
    /\ UNCHANGED <<pmode, default_source, container, persisted, ttl, now, inter>>

\* iter(entry).  self._container is an attribute lookup: when the entry
\* has no _container of its own it goes through __getattr__, which opens
\* the default source and reads _container from it.
Iter ==
    IF container.entry # Unset
    THEN IF container.entry = "catalog"
         THEN LET o == DefaultSource IN
              Forwarded([op |-> "iter",
                         value |-> [src |-> o.ret, of |-> "", val |-> "iter"]], o)
         ELSE Local([op |-> "iter", err |-> "ValueError"])
    ELSE LET o1 == DefaultSource
             o2 == Open(NoneV, pmode, persisted, ttl, now - Refreshed(o1))
         IN IF container.source = Unset
            THEN Forwarded([op |-> "iter", err |-> "AttributeError"], o1)
            ELSE IF container.source = "catalog"
            THEN ForwardedTwice([op |-> "iter",
                                 value |-> [src |-> o2.ret, of |-> "",
                                            val |-> "iter"]], o1, o2)
            ELSE Forwarded([op |-> "iter", err |-> "ValueError"], o1)

\* entry[item]
GetItem(item) ==
    IF item.tuple /\ Len(item.elems) = 0
    THEN Local([op |-> "getitem", item |-> item, err |-> "IndexError"])
    ELSE LET o == DefaultSource IN
         Forwarded([op |-> "getitem", item |-> item,
                    value |-> GetItemValue(o.ret, item)], o)

\* entry.has_been_persisted: self.get().has_been_persisted
HasBeenPersisted ==
    /\ last' = Record([op |-> "has_been_persisted",
                       value |-> [src |-> "live", of |-> "has_been_persisted",
                                  val |-> IF persisted THEN "True" ELSE "False"]],
                      [eff |-> NoneV, calls |-> <<"get", "has_been_persisted">>])
    /\ UNCHANGED <<pmode, default_source, container, persisted, ttl,
                   timestamp, now, inter, builds>>

---------------------------------------------------------------------------
(* The environment of the entry *)

\* time.time() moves on.
Tick ==
    /\ now < MaxTime
    /\ now' = now + 1
    /\ last' = Idle
    /\ UNCHANGED <<pmode, default_source, container, persisted, ttl,
                   timestamp, inter, builds>>

\* source.persist(ttl=t): the store now holds a replica of the source.
Persist(t) ==
    /\ persisted' = TRUE
    /\ ttl' = t
    /\ timestamp' = now
    /\ last' = Idle
    /\ UNCHANGED <<pmode, default_source, container, now, inter, builds>>

\* The owning catalog hands its persistence mode to the entry.
SetPmode(m) ==
    /\ pmode' = m
    /\ last' = Idle
    /\ UNCHANGED <<default_source, container, persisted, ttl, timestamp,
                   now, inter, builds>>

---------------------------------------------------------------------------
(* Initial state: CatalogEntry.__init__, nothing persisted yet *)

Init ==
    /\ pmode = Str("default", TRUE)
    /\ default_source = "None"
    /\ container \in ContainerStates
    /\ persisted = FALSE
    /\ ttl = NoTtl
    /\ timestamp = 0
    /\ now = 0
    /\ inter \in InterTables
    /\ builds = 0
    /\ last = Idle

Next ==
    \/ \E p \in Overrides : Call(p)
    \/ \E a \in Attrs : GetAttr(a)
    \/ Dir
    \/ Iter
    \/ \E i \in Items : GetItem(i)
    \/ HasBeenPersisted
    \/ Tick
    \/ \E t \in TtlValues : Persist(t)
    \/ \E m \in PmodeValues : SetPmode(m)

Spec == Init /\ [][Next]_vars

---------------------------------------------------------------------------
(* Properties *)

\* How many times the latest operation called store.refresh.
RefreshCalls == Cardinality({i \in DOMAIN last.calls : last.calls[i] = "refresh"})

\* The latest operation was entry(persist=...) and it did not raise.
Called == last.op = "call" /\ last.err = ""

\* C1: an open in effective mode 'default' that finds a persisted replica
\* calls store.refresh exactly when the replica's ttl is truthy and
\* ttl >= now - timestamp (equality included) and then returns the refresh
\* result; otherwise it returns the replica as it is, without a refresh.
C1_DefaultRefreshRule ==
    (Called /\ last.eff.val = "default" /\ last.hadReplica) =>
        LET within == /\ last.ttlAt # NoTtl
                      /\ last.ttlAt[1] # 0
                      /\ last.ttlAt[1] >= last.elapsed
        IN /\ within => (RefreshCalls = 1 /\ last.ret = "refreshed")
           /\ ~within => (RefreshCalls = 0 /\ last.ret = "persisted")

C1_Witness ==
    /\ Called /\ last.eff.val = "default" /\ last.hadReplica
    /\ last.ttlAt = <<1>> /\ last.elapsed = 1
    /\ last.ret = "refreshed"

\* C2: an open in effective mode 'never' does not consult the persistence
\* store at all (no has-been-persisted query, no get_persisted, no refresh)
\* and returns the live source, whether or not a replica exists.
C2_NeverIgnoresStore ==
    (Called /\ last.eff.val = "never") =>
        (last.ret = "live" /\ last.calls = <<"get">>)

\* C3: an open in effective mode 'always' that finds a persisted replica
\* returns that replica for every ttl and timestamp, and store.refresh is
\* not called.
C3_AlwaysReturnsReplica ==
    (Called /\ last.eff.val = "always" /\ last.hadReplica) =>
        (last.ret = "persisted" /\ RefreshCalls = 0)

\* C4: an override that is not None and not one of 'always', 'never',
\* 'default' makes the open fail with ValueError before get is called and
\* without any call to the persistence store.
C4_InvalidOverrideRejected ==
    (last.op = "call" /\ ~last.persist.isNone
                      /\ last.persist.val \notin {"always", "never", "default"}) =>
        (last.err = "ValueError" /\ last.calls = <<>> /\ last.ret = "none")

C4_Witness ==
    /\ last.op = "call" /\ last.persist = Str("", FALSE)
    /\ last.err = "ValueError" /\ last.calls = <<>>
    /\ persisted

\* C5: an open returns the live source if and only if there is no persisted
\* replica or the effective mode is 'never'.
C5_LiveIffNoReplicaOrNever ==
    Called => (last.ret = "live" <=> (~last.hadReplica \/ last.eff.val = "never"))

\* C6: the effective mode of an open is the override when given, else the
\* entry's _pmode, and an open that goes ahead has an effective mode that
\* is one of 'default', 'always', 'never'; any other resolved value makes
\* the open fail.
C6_EffectiveModeValid ==
    Called => /\ last.eff = (IF last.persist.isNone THEN pmode ELSE last.persist)
              /\ last.eff.val \in {"default", "always", "never"}

\* C7: the default source is built at most once per entry and from then on
\* kept in _default_source.
C7_BuiltAtMostOnce ==
    /\ builds <= 1
    /\ builds >= 1 => default_source # "None"

\* C8 as stated: entry[(k0, k1)] is entry[k0][k1] (the intermediate object
\* is asked for the bare key k1), and entry[(k0,)] is entry[k0].
C8_TupleAsChained ==
    (last.op = "getitem" /\ last.err = "" /\ last.item.tuple) =>
        IF Len(last.item.elems) = 2
        THEN last.value = InterGetItem(SourceGetItem(last.ret, last.item.elems[1]),
                                       Atom(last.item.elems[2]))
        ELSE last.value = SourceGetItem(last.ret, last.item.elems[1])

\* C8 amended: entry[(k0, k1)] is entry[k0][(k1,)]: the intermediate object
\* entry[k0] is asked for the remaining keys as a tuple, here the 1-tuple
\* (k1,); and entry[(k0,)] is entry[k0].
C8_TupleAsChainedTuple ==
    (last.op = "getitem" /\ last.err = "" /\ last.item.tuple) =>
        IF Len(last.item.elems) = 2
        THEN last.value = InterGetItem(SourceGetItem(last.ret, last.item.elems[1]),
                                       Tup(<<last.item.elems[2]>>))
        ELSE last.value = SourceGetItem(last.ret, last.item.elems[1])

C8_Witness ==
    /\ last.op = "getitem" /\ last.item = Tup(<<"a", "c">>)
    /\ inter[Tup(<<"c">>)] # inter[Atom("c")]
    /\ last.value.val = inter[Tup(<<"c">>)]

\* The container kind of the entry: its own _container, else what the
\* attribute lookup finds on the default source.
ContainerKind == IF container.entry # Unset THEN container.entry
                 ELSE container.source

\* C9: iterating an entry whose container is not 'catalog' fails with
\* ValueError without building the default source or touching the store;
\* iterating a 'catalog' entry gives the iterator of the source that an
\* open with no parameters and no override returns.
C9_IterOnlyCatalog ==
    last.op = "iter" =>
        IF ContainerKind = "catalog"
        THEN LET o == Open(NoneV, pmode, last.hadReplica, last.ttlAt, last.elapsed)
             IN /\ last.err = ""
                /\ last.calls = o.calls
                /\ last.value = [src |-> o.ret, of |-> "", val |-> "iter"]
        ELSE /\ last.err = "ValueError"
             /\ last.calls = <<>>
             /\ last.value = NoValue

\* C10: an open leaves the entry's _pmode and _default_source as they
\* were, whatever override it is given and whether it returns or raises;
\* an open without override then uses the entry's configured mode.
C10_OverrideIsPerCall ==
    [][(last'.op = "call" /\ Call(last'.persist)) =>
          /\ pmode' = pmode
          /\ default_source' = default_source
          /\ last'.persist.isNone => last'.eff = pmode']_vars

C10_Witness ==
    /\ last.op = "call" /\ ~last.persist.isNone /\ last.err = ""
    /\ last.persist.val # pmode.val
    /\ pmode.val # "default"

====
